---- MODULE Spec2Model ----
(***************************************************************************)
(* g-str: a process-wide string interner.  GStr handles point at           *)
(* GStrInterner nodes kept in a global intrusive doubly linked list        *)
(* (GLIST_NODO) guarded by the mutex GNOREP_LOOCK; every node carries a    *)
(* plain (non-atomic) reference count that clone and drop touch without    *)
(* the mutex.                                                              *)
(*                                                                         *)
(* Spec     : every interleaving of the threads' steps.                    *)
(* SpecSeq  : the same steps, one operation at a time (no two operations   *)
(*            overlap), with two history variables.                        *)
(* SpecHash : the loop of ohash on bounded character sequences.            *)
(***************************************************************************)
EXTENDS Integers, Sequences, FiniteSets, Bags, TLC

VARIABLES
    heap,      \* address -> GStrInterner fields (kept as they were after a free)
    alloc,     \* address -> the Box at this address is currently allocated
    begin,     \* GLIST_NODO.begin (0 is the null pointer)
    end,       \* GLIST_NODO.end
    lock,      \* GNOREP_LOOCK: 0 when free, else the thread holding the guard
    pc,        \* thread -> position inside the running operation
    strn,      \* thread -> argument of the running GStr::new
    value,     \* thread -> the local raw pointer `value` (search_value / drop / clone)
    tmp,       \* thread -> the count read by the running read-modify-write
    self,      \* thread -> the handle a running clone copies
    handles,   \* thread -> bag of the GStr handles the thread owns
    ub,        \* "none", or the undefined behaviour the process ran into
    snap,      \* history (SpecSeq): registry as it was before a temporary interning
    shared,    \* history (SpecSeq): address -> the node has had two handles at once
    oh,        \* the running ohash call of SpecHash
    poisoned   \* GNOREP_LOOCK is poisoned: a thread panicked while holding the guard

vars == <<heap, alloc, begin, end, lock, pc, strn, value, tmp, self, handles,
          ub, snap, shared, oh, poisoned>>

\* the threads of tests::it_works: the main thread and the one it spawns
NThreads == 2

(***************************************************************************)
(* Bounds                                                                  *)
(***************************************************************************)
MaxAddr == 2
MaxHandles == 2
NTexts == 2
MaxLen == 3

Threads == 1..NThreads
Addr == 1..MaxAddr
NULL == 0

(***************************************************************************)
(* u32 arithmetic.  A u32 is kept as <<high 16 bits, low 16 bits>> so that *)
(* every intermediate value stays inside TLC's integers.                   *)
(***************************************************************************)
CHAR_COUSIN == 486187739
CHAR_S == 31

U32(n) == <<(n \div 65536) % 65536, n % 65536>>

\* the 32-bit product of two 16-bit numbers
Mul16(a, b) ==
    LET A == a * (b \div 256)
        B == a * (b % 256)
        low == (A % 256) * 256 + B
    IN  <<(A \div 256 + low \div 65536) % 65536, low % 65536>>

wrapping_mul(x, y) ==
    LET ll == Mul16(x[2], y[2])
    IN  <<(ll[1] + Mul16(x[1], y[2])[2] + Mul16(x[2], y[1])[2]) % 65536, ll[2]>>

wrapping_add(x, y) ==
    LET s == x[2] + y[2]
    IN  <<(x[1] + y[1] + s \div 65536) % 65536, s % 65536>>

\* x % m for a u32 x and 0 < m < 2^29
rem(x, m) ==
    LET a == (x[1] * 256) % m
        b == (a * 4) % m
        c == (b * 4) % m
        d == (c * 4) % m
        e == (d * 4) % m
    IN  (e + x[2]) % m

(***************************************************************************)
(* ohash (g_norep.rs): one iteration of the while-let loop, and the whole  *)
(* function.  A text is the sequence of its characters' code points.       *)
(***************************************************************************)
\* the loop body with the multiplication by len done before the addition
hash_step_swapped(st, ch) ==
    [len  |-> st.len + 1,
     hash |-> wrapping_add(wrapping_mul(wrapping_mul(st.hash, U32(CHAR_S)),
                                        U32(st.len + 1)), U32(ch))]

\* len += 1; hash = hash.wrapping_mul(31).wrapping_add(ch).wrapping_mul(len)
hash_step(st, ch) ==
    [len  |-> st.len + 1,
     hash |-> wrapping_mul(wrapping_add(wrapping_mul(st.hash, U32(CHAR_S)), U32(ch)),
                           U32(st.len + 1))]

RECURSIVE ohash_loop(_, _, _)
ohash_loop(c, i, st) ==
    IF i > Len(c) THEN st ELSE ohash_loop(c, i + 1, hash_step(st, c[i]))

\* number of bytes of the UTF-8 encoding of a code point
Utf8Len(ch) == IF ch < 128 THEN 1 ELSE IF ch < 2048 THEN 2 ELSE IF ch < 65536 THEN 3 ELSE 4

RECURSIVE ByteLen(_)
ByteLen(c) == IF c = <<>> THEN 0 ELSE Utf8Len(Head(c)) + ByteLen(Tail(c))

\* ohash(c, &mut len): the returned fingerprint and the length written to *mlen
ohash(c) ==
    LET st == ohash_loop(c, 1, [len |-> 0, hash |-> U32(0)])
    IN  [hash |-> rem(st.hash, CHAR_COUSIN), len |-> st.len]

(***************************************************************************)
(* Texts                                                                   *)
(***************************************************************************)
\* 'a' (1 byte), n-tilde (2 bytes), euro sign (3 bytes), U+10FFFF (4 bytes)
Alphabet == {97, 241, 8364, 1114111}

RECURSIVE StringsOfLen(_)
StringsOfLen(n) ==
    IF n = 0 THEN {<<>>}
    ELSE {Append(s, ch) : s \in StringsOfLen(n - 1), ch \in Alphabet}

Strings == UNION {StringsOfLen(n) : n \in 0..MaxLen}

\* The texts the threads intern.  The first two have the same length and the
\* same fingerprint (241*31 + 96 = 242*31 + 65), and all hold characters of
\* more than one byte; the rest are the test's format!("hola{i}").
TextOf(i) ==
    CASE i = 1 -> <<241, 96>>
      [] i = 2 -> <<242, 65>>
      [] i = 3 -> <<8364>>
      [] OTHER -> <<104, 111, 108, 97, 48 + (i % 10)>>

Texts == {TextOf(i) : i \in 1..NTexts}

\* As in the test, the threads intern overlapping ranges of the texts: thread t
\* interns the texts t..NTexts.
TextsOf(t) == {TextOf(i) : i \in t..NTexts}

\* the number of handles a thread keeps at once: MaxHandles for the first
\* thread, one less for the others
HandleCap(t) == IF t = 1 THEN MaxHandles ELSE MaxHandles - 1

(***************************************************************************)
(* GStrInterner (g_norep.rs)                                               *)
(***************************************************************************)
\* what an address holds before anything was ever boxed there
Blank == [value |-> <<>>, len |-> 0, hash |-> 0, count |-> 0, next |-> NULL, prev |-> NULL]

\* GStrInterner::compare (g_norep.rs)
compare(e, hash, len, s) == e.hash = hash /\ e.len = len /\ e.value = s


(***************************************************************************)
(* Handles.  A handle is the pointer it holds plus two history fields: the *)
(* text it was interned with, and whether the node it was made for has     *)
(* been freed since (stale).                                               *)
(***************************************************************************)
\* the bound on the counter: no count of a correct run reaches it while a
\* thread can still take a handle
CountCap == NThreads * MaxHandles

NoHandle == [ptr |-> NULL, text |-> <<>>, stale |-> FALSE]
Handle(p, s, st) == [ptr |-> p, text |-> s, stale |-> st]

Owned(t) == BagToSet(handles[t])
AllHandles == UNION {Owned(t) : t \in Threads}
NumHandles(t) == BagCardinality(handles[t])

\* the handles of bag B after the node at address a is freed
MarkStale(B, a) ==
    LET img(h) == [h EXCEPT !.stale = (h.stale \/ h.ptr = a)]
        dom == {img(h) : h \in BagToSet(B)}
        cnt(g) == LET pre == {h \in BagToSet(B) : img(h) = g}
                      one == CHOOSE h \in pre : TRUE
                  IN  IF Cardinality(pre) = 1 THEN B[one]
                      ELSE B[one] + B[CHOOSE h \in pre : h # one]
    IN  [g \in dom |-> cnt(g)]

\* number of copies, over the pairs <<thread, handle>> of S
RECURSIVE Copies(_)
Copies(S) ==
    IF S = {} THEN 0
    ELSE LET x == CHOOSE y \in S : TRUE
         IN  CopiesIn(x[2], handles[x[1]]) + Copies(S \ {x})

\* number of handles (of every thread) that point at address a and are not stale
LiveHandles(a) ==
    Copies({<<t, h>> \in Threads \X AllHandles : h.ptr = a /\ ~h.stale})

\* number of handles (of every thread) that were interned with text s
HandlesOf(s) == Copies({<<t, h>> \in Threads \X AllHandles : h.text = s})

(***************************************************************************)
(* The registry list                                                       *)
(***************************************************************************)
RECURSIVE Walk(_, _, _)
Walk(hp, p, n) ==
    IF p = NULL \/ n = 0 THEN <<>> ELSE <<p>> \o Walk(hp, hp[p].next, n - 1)

\* the nodes reached from begin through next (cut after MaxAddr + 1 steps)
ListSeq == Walk(heap, begin, MaxAddr + 1)
InList(a) == \E i \in 1..Len(ListSeq) : ListSeq[i] = a


(***************************************************************************)
(* List surgery, as functions of the registry <<heap, begin, end>>         *)
(***************************************************************************)
\* create_gstr storing the byte length of the text (vstr.len()) as len
create_gstr_byte_len(hp, b, e, a, vstr, len, hash) ==
    LET gstr == [value |-> vstr, len |-> ByteLen(vstr), hash |-> hash, count |-> 1,
                 next |-> NULL, prev |-> e]
        hp1 == [hp EXCEPT ![a] = gstr]
        hp2 == IF e # NULL THEN [hp1 EXCEPT ![e].next = a] ELSE hp1
    IN  [heap |-> hp2, end |-> a, begin |-> IF b = NULL THEN a ELSE b]

\* create_gstr (lib.rs): box a node with count 1 at address a and append it
create_gstr(hp, b, e, a, vstr, len, hash) ==
    LET gstr == [value |-> vstr, len |-> len, hash |-> hash, count |-> 1,
                 next |-> NULL, prev |-> e]
        hp1 == [hp EXCEPT ![a] = gstr]
        hp2 == IF e # NULL THEN [hp1 EXCEPT ![e].next = a] ELSE hp1
    IN  [heap |-> hp2, end |-> a, begin |-> IF b = NULL THEN a ELSE b]

\* GStrInterner::remove (g_norep.rs), the part run under the guard
remove(hp, b, e, a) ==
    LET hp1 == IF hp[a].next # NULL
               THEN [hp EXCEPT ![hp[a].next].prev = hp[a].prev] ELSE hp
        e1  == IF hp[a].next # NULL THEN e ELSE hp[a].prev
        hp2 == IF hp1[a].prev # NULL
               THEN [hp1 EXCEPT ![hp1[a].prev].next = hp1[a].next] ELSE hp1
        b1  == IF hp1[a].prev # NULL THEN b ELSE hp1[a].next
    IN  [heap |-> hp2, begin |-> b1, end |-> e1]

\* a decrement that leaves the count as it was
decremented_forgotten(c) == c

\* `count -= 1` on the value read before.  The usize is kept as its representative
\* near 0 modulo 2^64: -1 stands for usize::MAX, and -1 + 1 = 0 as in the
\* wrapping arithmetic of a build without overflow checks.
decremented(c) == c - 1

(***************************************************************************)
(* Initial state                                                           *)
(***************************************************************************)
NoSnap == [text |-> <<>>, view |-> <<>>, again |-> FALSE, on |-> FALSE]
OhIdle == [c |-> <<>>, iter |-> 0, st |-> [len |-> 0, hash |-> U32(0)],
           mlen |-> -1, ret |-> -1]

InitProgram ==
    /\ heap = [a \in Addr |-> Blank]
    /\ alloc = [a \in Addr |-> FALSE]
    /\ begin = NULL
    /\ end = NULL
    /\ lock = 0
    /\ pc = [t \in Threads |-> "idle"]
    /\ strn = [t \in Threads |-> <<>>]
    /\ value = [t \in Threads |-> NULL]
    /\ tmp = [t \in Threads |-> 0]
    /\ self = [t \in Threads |-> NoHandle]
    /\ handles = [t \in Threads |-> EmptyBag]
    /\ ub = "none"
    /\ snap = NoSnap
    /\ shared = [a \in Addr |-> FALSE]
    /\ poisoned = FALSE

Init == InitProgram /\ oh = OhIdle

(***************************************************************************)
(* GStr::new (lib.rs)                                                      *)
(***************************************************************************)
locals == <<strn, value, tmp, self>>
list == <<heap, alloc, begin, end>>

\* thread t is at label l, and the process is still running
At(t, l) == ub = "none" /\ pc[t] = l

\* A step that reads or writes the nodes at the addresses ps.  Touching freed
\* memory is undefined behaviour: the model records it and follows the
\* process no further.
Access(ps, step) ==
    IF \E p \in ps : ~alloc[p]
    THEN /\ ub' = "use_after_free"
         /\ UNCHANGED <<list, lock, pc, locals, handles>>
    ELSE step /\ UNCHANGED ub

\* search_value: the `while value != null` loop from `value` on.  The result
\* is the first node that compares equal (NULL for None), with the nodes the
\* loop read on its way.
RECURSIVE search_value(_, _, _, _, _, _)
search_value(hp, s, len, hash, v, n) ==
    IF v = NULL \/ n = 0 THEN [found |-> NULL, read |-> {}]
    ELSE IF compare(hp[v], hash, len, s) THEN [found |-> v, read |-> {v}]
    ELSE LET r == search_value(hp, s, len, hash, hp[v].next, n - 1)
         IN  [found |-> r.found, read |-> r.read \cup {v}]

Search(s) == search_value(heap, s, ohash(s).len, ohash(s).hash, begin, MaxAddr + 1)

\* `let (hash, len) = ohash(strn)`: new computes the pair once per call; here
\* it is tabulated for every strn a thread can hold
ohash_of == [s \in Texts \cup {<<>>} |-> ohash(s)]

\* the call of thread t: search_value(strn, len, hash, value), with the value
\* new read from GLIST_NODO.begin after it took the guard
Scan(t) ==
    search_value(heap, strn[t], ohash_of[strn[t]].len, ohash_of[strn[t]].hash, value[t],
                 MaxAddr + 1)

\* the bound on the heap: a text is interned only when the scan will find it
\* or the allocator has an address left for it
CanIntern(s) == Search(s).found # NULL \/ \E a \in Addr : ~alloc[a]

\* the bound on the counts: no new is started for a text whose node already
\* counts CountCap.  The bounds decide which calls start, never whether a
\* call that has started goes on.
CanCount(s) == Search(s).found # NULL => heap[Search(s).found].count < CountCap

\* a lock() that never waits
can_lock_always == TRUE

\* GNOREP_LOOCK.lock(): the caller waits while a thread holds the guard
can_lock == lock = 0

\* a lock() whose result is taken for a guard also when it is an error
lock_ok_whatever == TRUE

\* the result of lock(): Ok(guard) unless the mutex is poisoned
lock_ok == ~poisoned

\* new: ohash, then GNOREP_LOOCK.lock().expect(..) and `value = GLIST_NODO.begin`.
new_lock(t, s) ==
    /\ At(t, "idle")
    /\ NumHandles(t) < HandleCap(t)
    /\ CanIntern(s)
    /\ CanCount(s)
    /\ can_lock
    /\ lock_ok
    /\ lock' = t
    /\ strn' = [strn EXCEPT ![t] = s]
    /\ value' = [value EXCEPT ![t] = begin]
    /\ pc' = [pc EXCEPT ![t] = "search"]
    /\ UNCHANGED <<list, tmp, self, handles, ub>>

\* new: search_value finds a node that compares equal, and reads its count
\* for `count += 1`
new_search(t) ==
    /\ At(t, "search")
    /\ LET r == Scan(t)
       IN  /\ r.found # NULL
           /\ Access(r.read,
                /\ value' = [value EXCEPT ![t] = r.found]
                /\ tmp' = [tmp EXCEPT ![t] = heap[r.found].count]
                /\ pc' = [pc EXCEPT ![t] = "found"]
                /\ UNCHANGED <<list, lock, strn, self, handles>>)

\* search_value: the store of `count += 1`, `return Some(GStr { value })`, and
\* new's return, which drops the guard
new_found(t) ==
    /\ At(t, "found")
    /\ Access({value[t]},
         /\ heap' = [heap EXCEPT ![value[t]].count = tmp[t] + 1]
         /\ handles' = [handles EXCEPT
                          ![t] = @ (+) SetToBag({Handle(value[t], strn[t], FALSE)})]
         /\ lock' = 0
         /\ pc' = [pc EXCEPT ![t] = "idle"]
         /\ strn' = [strn EXCEPT ![t] = <<>>]
         /\ value' = [value EXCEPT ![t] = NULL]
         /\ tmp' = [tmp EXCEPT ![t] = 0]
         /\ UNCHANGED <<alloc, begin, end, self>>)

\* new: search_value returns None; create_gstr boxes a node (at any address
\* the allocator has free) and appends it; new returns, which drops the guard
new_create(t) ==
    /\ At(t, "search")
    /\ LET r == Scan(t)
       IN  /\ r.found = NULL
           /\ \E a \in Addr :
                /\ ~alloc[a]
                /\ Access(r.read \cup ({end} \ {NULL}),
                     LET h == ohash_of[strn[t]]
                         c == create_gstr(heap, begin, end, a, strn[t], h.len, h.hash)
                     IN  /\ heap' = c.heap
                         /\ begin' = c.begin
                         /\ end' = c.end
                         /\ alloc' = [alloc EXCEPT ![a] = TRUE]
                         /\ handles' = [handles EXCEPT
                                          ![t] = @ (+) SetToBag({Handle(c.end, strn[t], FALSE)})]
                         /\ lock' = 0
                         /\ pc' = [pc EXCEPT ![t] = "idle"]
                         /\ strn' = [strn EXCEPT ![t] = <<>>]
                         /\ value' = [value EXCEPT ![t] = NULL]
                         /\ UNCHANGED <<tmp, self>>)

(***************************************************************************)
(* Clone for GStr (lib.rs)                                                 *)
(***************************************************************************)
\* the read of `(*self.value).count += 1`
clone_read(t, h) ==
    /\ At(t, "idle")
    /\ h \in Owned(t)
    /\ NumHandles(t) < HandleCap(t)
    /\ Access({h.ptr},
         /\ heap[h.ptr].count < CountCap
         /\ self' = [self EXCEPT ![t] = h]
         /\ tmp' = [tmp EXCEPT ![t] = heap[h.ptr].count]
         /\ pc' = [pc EXCEPT ![t] = "clone"]
         /\ UNCHANGED <<list, lock, strn, value, handles>>)

\* the store of `count += 1`, and the new GStr { value: self.value }
clone_write(t) ==
    /\ At(t, "clone")
    /\ Access({self[t].ptr},
         /\ heap' = [heap EXCEPT ![self[t].ptr].count = tmp[t] + 1]
         /\ handles' = [handles EXCEPT ![t] = @ (+) SetToBag({self[t]})]
         /\ pc' = [pc EXCEPT ![t] = "idle"]
         /\ self' = [self EXCEPT ![t] = NoHandle]
         /\ tmp' = [tmp EXCEPT ![t] = 0]
         /\ UNCHANGED <<alloc, begin, end, lock, strn, value>>)

(***************************************************************************)
(* Drop for GStr (lib.rs) and GStrInterner::remove (g_norep.rs)            *)
(***************************************************************************)
\* `let value = self.value`, and the read of `(*value).count -= 1`
drop_read(t, h) ==
    /\ At(t, "idle")
    /\ h \in Owned(t)
    /\ Access({h.ptr},
         /\ heap[h.ptr].count >= 0
         /\ handles' = [handles EXCEPT ![t] = @ (-) SetToBag({h})]
         /\ value' = [value EXCEPT ![t] = h.ptr]
         /\ tmp' = [tmp EXCEPT ![t] = heap[h.ptr].count]
         /\ pc' = [pc EXCEPT ![t] = "drop"]
         /\ UNCHANGED <<list, lock, strn, self>>)

\* the store of `count -= 1`; tmp keeps the value this thread stored
drop_write(t) ==
    /\ At(t, "drop")
    /\ Access({value[t]},
         /\ heap' = [heap EXCEPT ![value[t]].count = decremented(tmp[t])]
         /\ tmp' = [tmp EXCEPT ![t] = decremented(tmp[t])]
         /\ pc' = [pc EXCEPT ![t] = "drop_test"]
         /\ UNCHANGED <<alloc, begin, end, lock, strn, value, self, handles>>)

\* `if (*value).count == 0`, a second read of the field
drop_test(t) ==
    /\ At(t, "drop_test")
    /\ Access({value[t]},
         /\ IF heap[value[t]].count = 0
            THEN /\ pc' = [pc EXCEPT ![t] = "remove"]
                 /\ UNCHANGED <<value, tmp>>
            ELSE /\ pc' = [pc EXCEPT ![t] = "idle"]
                 /\ value' = [value EXCEPT ![t] = NULL]
                 /\ tmp' = [tmp EXCEPT ![t] = 0]
         /\ UNCHANGED <<list, lock, strn, self, handles>>)

\* remove: `if self.count == 0`, a third read; when it fails remove returns
\* without unlinking and drop goes on to free the node
remove_test(t) ==
    /\ At(t, "remove")
    /\ Access({value[t]},
         /\ pc' = [pc EXCEPT
                     ![t] = IF heap[value[t]].count = 0 THEN "remove_lock" ELSE "free"]
         /\ UNCHANGED <<list, lock, locals, handles>>)

\* remove: GNOREP_LOOCK.lock()
remove_lock(t) ==
    /\ At(t, "remove_lock")
    /\ can_lock
    /\ lock_ok
    /\ lock' = t
    /\ pc' = [pc EXCEPT ![t] = "unlink"]
    /\ UNCHANGED <<list, locals, handles, ub>>

\* remove: patch the neighbours or begin / end, then drop the guard
remove_unlink(t) ==
    /\ At(t, "unlink")
    /\ Access({value[t]} \cup ({heap[value[t]].next, heap[value[t]].prev} \ {NULL}),
         LET r == remove(heap, begin, end, value[t])
         IN  /\ heap' = r.heap
             /\ begin' = r.begin
             /\ end' = r.end
             /\ lock' = 0
             /\ pc' = [pc EXCEPT ![t] = "free"]
             /\ UNCHANGED <<alloc, locals, handles>>)

\* `let _ = Box::from_raw(value)`: the node is freed; its memory keeps its last
\* contents until create_gstr boxes a new node there.  Handles (owned, or being
\* cloned) that point at it are stale from here on.  Freeing what
\* is already free is undefined behaviour.
drop_free(t) ==
    /\ At(t, "free")
    /\ IF ~alloc[value[t]]
       THEN /\ ub' = "double_free"
            /\ UNCHANGED <<list, lock, pc, locals, handles>>
       ELSE /\ alloc' = [alloc EXCEPT ![value[t]] = FALSE]
            /\ handles' = [u \in Threads |-> MarkStale(handles[u], value[t])]
            /\ self' = [u \in Threads |->
                          [self[u] EXCEPT !.stale = (@ \/ self[u].ptr = value[t])]]
            /\ pc' = [pc EXCEPT ![t] = "idle"]
            /\ value' = [value EXCEPT ![t] = NULL]
            /\ tmp' = [tmp EXCEPT ![t] = 0]
            /\ UNCHANGED <<heap, begin, end, lock, strn, ub>>

(***************************************************************************)
(* Spec: the threads' steps in every interleaving                          *)
(***************************************************************************)
Next ==
    \E t \in Threads :
        \/ \E s \in TextsOf(t) : new_lock(t, s) /\ UNCHANGED <<snap, shared, oh, poisoned>>
        \/ new_search(t) /\ UNCHANGED <<snap, shared, oh, poisoned>>
        \/ new_found(t) /\ UNCHANGED <<snap, shared, oh, poisoned>>
        \/ new_create(t) /\ UNCHANGED <<snap, shared, oh, poisoned>>
        \/ \E h \in Owned(t) : clone_read(t, h) /\ UNCHANGED <<snap, shared, oh, poisoned>>
        \/ clone_write(t) /\ UNCHANGED <<snap, shared, oh, poisoned>>
        \/ \E h \in Owned(t) : drop_read(t, h) /\ UNCHANGED <<snap, shared, oh, poisoned>>
        \/ drop_write(t) /\ UNCHANGED <<snap, shared, oh, poisoned>>
        \/ drop_test(t) /\ UNCHANGED <<snap, shared, oh, poisoned>>
        \/ remove_test(t) /\ UNCHANGED <<snap, shared, oh, poisoned>>
        \/ remove_lock(t) /\ UNCHANGED <<snap, shared, oh, poisoned>>
        \/ remove_unlink(t) /\ UNCHANGED <<snap, shared, oh, poisoned>>
        \/ drop_free(t) /\ UNCHANGED <<snap, shared, oh, poisoned>>

Spec == Init /\ [][Next]_vars

(***************************************************************************)
(* SpecPoison: Spec with panics.  StringInfo is a public trait, and new     *)
(* calls its get_str_ref and get_str while it holds the guard; when one of  *)
(* them panics, unwinding drops the guard and std poisons the mutex.  From  *)
(* then on lock() returns an error and `.expect(..)` panics.  A thread that *)
(* panicked takes no further step.                                          *)
(***************************************************************************)
\* a panic in strn.get_str_ref() or strn.get_str() under the guard of new
new_panic(t) ==
    /\ At(t, "search")
    /\ poisoned' = TRUE
    /\ lock' = 0
    /\ pc' = [pc EXCEPT ![t] = "panicked"]
    /\ UNCHANGED <<list, locals, handles, ub>>

\* new: GNOREP_LOOCK.lock() returns an error and expect panics
new_lock_poisoned(t, s) ==
    /\ At(t, "idle")
    /\ NumHandles(t) < HandleCap(t)
    /\ CanIntern(s)
    /\ CanCount(s)
    /\ can_lock
    /\ ~lock_ok
    /\ pc' = [pc EXCEPT ![t] = "panicked"]
    /\ UNCHANGED <<list, lock, locals, handles, ub, poisoned>>

\* remove: GNOREP_LOOCK.lock() returns an error and expect panics
remove_lock_poisoned(t) ==
    /\ At(t, "remove_lock")
    /\ can_lock
    /\ ~lock_ok
    /\ pc' = [pc EXCEPT ![t] = "panicked"]
    /\ UNCHANGED <<list, lock, locals, handles, ub, poisoned>>

NextPoison ==
    \/ Next
    \/ \E t \in Threads :
          \/ new_panic(t) /\ UNCHANGED <<snap, shared, oh>>
          \/ \E s \in TextsOf(t) : new_lock_poisoned(t, s) /\ UNCHANGED <<snap, shared, oh>>
          \/ remove_lock_poisoned(t) /\ UNCHANGED <<snap, shared, oh>>

SpecPoison == Init /\ [][NextPoison]_vars

(***************************************************************************)
(* SpecSeq: the same steps with no two operations overlapping (a thread    *)
(* steps only while every other thread is between operations), and the     *)
(* history variables snap and shared.                                      *)
(***************************************************************************)
AllIdle == \A t \in Threads : pc[t] = "idle"
Quiet(t) == \A u \in Threads \ {t} : pc[u] = "idle"

\* the registry as a traversal from begin sees it
View ==
    [begin |-> begin, end |-> end,
     nodes |-> [i \in 1..Len(ListSeq) |->
                  <<ListSeq[i], heap[ListSeq[i]].value, heap[ListSeq[i]].count>>]]

\* shared[a]: the node now boxed at a has had a count of two or more
SharedStep ==
    shared' = [a \in Addr |->
                 IF ~alloc[a] \/ ~alloc'[a] THEN FALSE
                 ELSE shared[a] \/ heap'[a].count >= 2]

\* An operation on text s starts.  snap follows one temporary interning: it is
\* taken when a new of an absent text starts, kept while every operation is
\* on that text and a handle to it is left, and given up otherwise.  again
\* says the text was interned, fully dropped, and is now interned again.
Started(s, isNew) ==
    /\ snap' = IF snap.on /\ snap.text = s /\ HandlesOf(s) > 0 THEN snap
               ELSE IF isNew /\ Search(s).found = NULL
               THEN [text |-> s, view |-> View,
                     again |-> snap.on /\ snap.text = s, on |-> TRUE]
               ELSE NoSnap
    /\ SharedStep
    /\ UNCHANGED <<oh, poisoned>>

Continued == snap' = snap /\ SharedStep /\ UNCHANGED <<oh, poisoned>>

NextSeq ==
    \E t \in Threads :
        \/ \E s \in TextsOf(t) : Quiet(t) /\ new_lock(t, s) /\ Started(s, TRUE)
        \/ Quiet(t) /\ new_search(t) /\ Continued
        \/ Quiet(t) /\ new_found(t) /\ Continued
        \/ Quiet(t) /\ new_create(t) /\ Continued
        \/ \E h \in Owned(t) : Quiet(t) /\ clone_read(t, h) /\ Started(h.text, FALSE)
        \/ Quiet(t) /\ clone_write(t) /\ Continued
        \/ \E h \in Owned(t) : Quiet(t) /\ drop_read(t, h) /\ Started(h.text, FALSE)
        \/ Quiet(t) /\ drop_write(t) /\ Continued
        \/ Quiet(t) /\ drop_test(t) /\ Continued
        \/ Quiet(t) /\ remove_test(t) /\ Continued
        \/ Quiet(t) /\ remove_lock(t) /\ Continued
        \/ Quiet(t) /\ remove_unlink(t) /\ Continued
        \/ Quiet(t) /\ drop_free(t) /\ Continued

SpecSeq == Init /\ [][NextSeq]_vars

(***************************************************************************)
(* SpecHash: one call of ohash on a text over Alphabet of at most MaxLen   *)
(* characters, a turn of its loop at a time.                               *)
(***************************************************************************)
program == <<heap, alloc, begin, end, lock, pc, strn, value, tmp, self, handles,
             ub, snap, shared, poisoned>>

InitHash == InitProgram /\ oh \in {[OhIdle EXCEPT !.c = s] : s \in Strings}

\* `while let Some(ch) = iter.next()`: len += 1 and the new hash
ohash_iter ==
    /\ oh.ret = -1
    /\ oh.iter < Len(oh.c)
    /\ oh' = [oh EXCEPT !.iter = @ + 1, !.st = hash_step(@, oh.c[oh.iter + 1])]
    /\ UNCHANGED program

\* `(*mlen) = len; hash % CHAR_COUSIN`
ohash_return ==
    /\ oh.ret = -1
    /\ oh.iter = Len(oh.c)
    /\ oh' = [oh EXCEPT !.mlen = oh.st.len, !.ret = rem(oh.st.hash, CHAR_COUSIN)]
    /\ UNCHANGED program

NextHash == ohash_iter \/ ohash_return

SpecHash == InitHash /\ [][NextHash]_vars

(***************************************************************************)
(* Properties of every interleaving (Spec)                                 *)
(***************************************************************************)
\* PartialEq for GStr (lib.rs): == and != compare the pointers
eq(h1, h2) == h1.ptr = h2.ptr
ne(h1, h2) == h1.ptr # h2.ptr

\* GStr::chars_count (lib.rs)
chars_count(h) == heap[h.ptr].len

\* the positions of the list whose node holds text s
Holding(s) == {i \in 1..Len(ListSeq) : heap[ListSeq[i]].value = s}

\* C1 (dedup): any two handles held at the same time that were interned with
\* the same text point at the same node, and while a handle is held the list
\* has exactly one node with the handle's text.
DedupEveryInterleaving ==
    /\ \A h1 \in AllHandles : \A h2 \in AllHandles :
          h1.text = h2.text => eq(h1, h2)
    /\ \A h \in AllHandles : Cardinality(Holding(h.text)) = 1

\* C2 (no use after free): no handle that a thread holds points at a node
\* that has been freed, and no thread touches freed memory or frees twice.
NoUseAfterFree ==
    /\ \A h \in AllHandles : alloc[h.ptr] /\ ~h.stale
    /\ ub = "none"

\* C3 (stress): once every thread has dropped all its handles and is between
\* operations, the list is empty (begin and end are null), every node has
\* been freed, and none was freed twice.
Quiescent == AllIdle /\ \A t \in Threads : handles[t] = EmptyBag

EmptyWhenAllDropped ==
    Quiescent => /\ begin = NULL
                 /\ end = NULL
                 /\ \A a \in Addr : ~alloc[a]
                 /\ ub = "none"

\* C4 (live count): whenever no operation is running, the count of every
\* allocated node is the number of handles that point at it.
LiveCountAccurate ==
    AllIdle => \A a \in Addr : alloc[a] => heap[a].count = LiveHandles(a)

\* C10 (destroyed once): a drop unlinks a node only if the node is in the
\* list, and frees it only if the node is still allocated and the drop's own
\* decrement stored 0.
DestroyedExactlyOnce ==
    /\ ub # "double_free"
    /\ \A t \in Threads :
          /\ pc[t] = "unlink" => InList(value[t])
          /\ pc[t] = "free" => tmp[t] = 0

\* C5 (distinctness): two handles held at the same time that were interned
\* with different texts do not point at the same node: == is false and != is
\* true.
DistinctTextsDistinctNodes ==
    \A h1 \in AllHandles : \A h2 \in AllHandles :
        h1.text # h2.text => ne(h1, h2) /\ ~eq(h1, h2)

\* C9 (character count): chars_count of every handle held reads a node that
\* is allocated (a read through a dangling pointer has no defined result) and
\* gives the number of characters of the text the handle was interned with.
CharsCountOfEveryHandle ==
    \A h \in AllHandles : alloc[h.ptr] /\ chars_count(h) = Len(h.text)

\* C11 (unlinked before freed): no freed node is begin or end or the next or
\* prev of a node of the list, and a drop that is about to free a node has
\* taken it out of the list.
UnlinkedBeforeFreed ==
    /\ \A a \in Addr :
          ~alloc[a] =>
              /\ begin # a
              /\ end # a
              /\ \A b \in Addr :
                    InList(b) /\ alloc[b] => heap[b].next # a /\ heap[b].prev # a
    /\ \A t \in Threads : pc[t] = "free" => ~InList(value[t])

\* C13 (scanned entries are live): every node the scan of a new visits, under
\* the guard, has a count of at least 1, and so has the node it matched when
\* it read the count to increment it.
ScannedEntriesLive ==
    \A t \in Threads :
        /\ pc[t] = "search" => \A a \in Scan(t).read : heap[a].count >= 1
        /\ pc[t] = "found" => tmp[t] >= 1

\* begin, end and every node's next and prev
Links == <<begin, end, [a \in Addr |-> <<heap[a].next, heap[a].prev>>]>>

\* the positions where a thread reads or writes begin, end or a link
InGuard == {"search", "found", "unlink"}

\* C14 (atomic intern): a thread at a position that reads or writes begin,
\* end or a link holds the guard, and the guard is held by such a thread only
\* (so by one thread at a time); a new that is about to scan still has the
\* begin it read when it took the guard; and every step that changes begin,
\* end or a link is a step of the thread that holds the guard, so nothing
\* changes them while a new is between taking the guard and its increment
\* or append.
AtomicIntern ==
    /\ [](/\ \A t \in Threads : pc[t] \in InGuard => lock = t
          /\ lock # 0 => pc[lock] \in InGuard
          /\ \A t \in Threads : pc[t] = "search" => value[t] = begin)
    /\ [][/\ Links' # Links =>
               lock # 0 /\ pc[lock] \in {"search", "unlink"} /\ pc'[lock] # pc[lock]
          /\ \A t \in Threads :
               pc[t] \in {"search", "found"} /\ pc'[t] = pc[t] => Links' = Links]_vars

\* a new holds the guard and is about to scan a list with a node whose count
\* is 0, while the drop that stored the 0 waits for the guard to unlink it
AtomicInternWitness ==
    \E t \in Threads : \E u \in Threads :
        /\ pc[t] = "search"
        /\ lock = t
        /\ pc[u] = "remove_lock"
        /\ InList(value[u])
        /\ ub = "none"

\* C15 (pre-filter equivalence): for every allocated node and every text q,
\* the test of the scan (hash, len and value against ohash(q) and q) is true
\* exactly when the node's value is q; in particular the hash and len stored
\* in a node are those ohash gives for its value.
PreFilterEquivalence ==
    \A a \in Addr :
        alloc[a] =>
            /\ \A q \in Texts :
                  compare(heap[a], ohash(q).hash, ohash(q).len, q) <=> (heap[a].value = q)
            /\ heap[a].hash = ohash(heap[a].value).hash
            /\ heap[a].len = ohash(heap[a].value).len

\* a new scans for a text q while the list holds a node of another text
\* with the hash and len of q (the value decides), followed by the node of q
PreFilterEquivalenceWitness ==
    \E t \in Threads : \E a \in Addr : \E b \in Addr :
        /\ pc[t] = "search"
        /\ alloc[a] /\ alloc[b]
        /\ ListSeq = <<a, b>>
        /\ heap[a].value # strn[t]
        /\ heap[a].hash = ohash(strn[t]).hash
        /\ heap[a].len = ohash(strn[t]).len
        /\ Scan(t).found = b

\* the step changes the count of the node at a by d and nothing else of the
\* registry
OnlyCountChanges(a, d) ==
    /\ heap' = [heap EXCEPT ![a].count = heap[a].count + d]
    /\ begin' = begin
    /\ end' = end
    /\ alloc' = alloc

\* C16 (frame of the non-structural operations): the store of a clone and
\* the store of a new that matched raise the count of their node by 1, the
\* store of a drop that leaves a count above 0 lowers it by 1, and each
\* leaves begin, end, the links, the other counts and every value, len and
\* hash as they were; the other steps of these operations change nothing of
\* the registry; and no step changes the value, len or hash of a node that
\* stays allocated.
FrameOfNonStructural ==
    [][/\ \A t \in Threads :
            /\ pc[t] = "clone" /\ pc'[t] = "idle" => OnlyCountChanges(self[t].ptr, 1)
            /\ pc[t] = "found" /\ pc'[t] = "idle" => OnlyCountChanges(value[t], 1)
            /\ pc[t] = "drop" /\ pc'[t] = "drop_test" /\ heap'[value[t]].count > 0 =>
                  OnlyCountChanges(value[t], 0 - 1)
            /\ \/ pc[t] = "idle" /\ pc'[t] \in {"clone", "drop"}
               \/ pc[t] = "search" /\ pc'[t] = "found"
               \/ pc[t] = "drop_test" /\ pc'[t] = "idle"
               => heap' = heap /\ begin' = begin /\ end' = end /\ alloc' = alloc
       /\ \A a \in Addr :
            alloc[a] /\ alloc'[a] =>
                /\ heap'[a].value = heap[a].value
                /\ heap'[a].len = heap[a].len
                /\ heap'[a].hash = heap[a].hash]_vars

\* the nodes reached from end through prev (cut after MaxAddr + 1 steps)
RECURSIVE WalkBack(_, _, _)
WalkBack(hp, p, n) ==
    IF p = NULL \/ n = 0 THEN <<>> ELSE <<p>> \o WalkBack(hp, hp[p].prev, n - 1)

BackSeq == WalkBack(heap, end, MaxAddr + 1)

Reverse(q) == [i \in 1..Len(q) |-> q[Len(q) + 1 - i]]

\* C12 (well-formed list): begin is null iff end is null; the walk from begin
\* through next ends, visits no node twice and only allocated nodes, starts
\* at a node without prev and stops at end, a node without next; each node's
\* successor points back at it; the walk from end through prev is the same
\* walk reversed; and every allocated node is in the list, but for a node a
\* drop has unlinked and is about to free.
WellFormedList ==
    LET L == ListSeq
        n == Len(L)
    IN  /\ (begin = NULL) <=> (end = NULL)
        /\ n <= MaxAddr
        /\ \A i \in 1..n : \A j \in 1..n : L[i] = L[j] => i = j
        /\ \A i \in 1..n : alloc[L[i]]
        /\ n > 0 => heap[L[1]].prev = NULL /\ heap[L[n]].next = NULL /\ L[n] = end
        /\ \A i \in 1..(n - 1) : heap[L[i + 1]].prev = L[i]
        /\ BackSeq = Reverse(L)
        /\ \A a \in Addr :
              alloc[a] /\ ~InList(a) => \E t \in Threads : pc[t] = "free" /\ value[t] = a

\* sequence q without the element a
Without(q, a) == SelectSeq(q, LAMBDA x : x # a)

\* C19 (insertion order): a new that found no match makes its node, with
\* count 1, the last of the walk from begin and the new end (and the new
\* begin when the list was empty), the nodes before it staying as they
\* were; an unlink takes its node out of the walk and leaves the others in
\* their order; no other step changes the walk.  Hence the walk lists the
\* nodes in the order of their creation.
InsertionOrder ==
    [][\A t \in Threads :
          pc'[t] # pc[t] =>
              IF pc[t] = "search" /\ pc'[t] = "idle"
              THEN \E a \in Addr :
                      /\ ListSeq' = Append(ListSeq, a)
                      /\ ~InList(a)
                      /\ end' = a
                      /\ heap'[a].count = 1
                      /\ begin' = IF ListSeq = <<>> THEN a ELSE begin
              ELSE IF pc[t] = "unlink"
              THEN ListSeq' = Without(ListSeq, value[t])
              ELSE ListSeq' = ListSeq]_vars

\* C17 (lock failure is fatal): once the mutex is poisoned no thread holds
\* the guard or is at a position that reads or writes begin, end or a link;
\* the step in which new or remove fails to lock happens only then, ends the
\* thread's operation and changes no node, no count, no allocation, neither
\* begin nor end, no handle and not the lock; and from the poisoning on
\* begin, end and the links stay as they are and no node is created.
LockFailureFatal ==
    /\ [](poisoned => lock = 0 /\ \A t \in Threads : pc[t] \notin InGuard)
    /\ [][/\ \A t \in Threads :
               pc[t] \in {"idle", "remove_lock"} /\ pc'[t] = "panicked" =>
                   poisoned /\ UNCHANGED <<heap, alloc, begin, end, lock, handles>>
          /\ poisoned =>
               Links' = Links /\ \A a \in Addr : alloc'[a] => alloc[a]]_vars

\* the mutex is poisoned by a panic under the guard of one thread's new, and
\* the other thread's drop, which had stored count 0, has failed to lock in
\* remove: its node is still in the list, allocated, with count 0
LockFailureFatalWitness ==
    \E t \in Threads : \E u \in Threads :
        /\ poisoned
        /\ pc[t] = "panicked" /\ strn[t] # <<>>
        /\ pc[u] = "panicked" /\ value[u] # NULL /\ strn[u] = <<>>
        /\ InList(value[u])
        /\ alloc[value[u]]
        /\ heap[value[u]].count = 0

\* the next step of the operation thread t is in
Continue(t) ==
    /\ \/ new_search(t) \/ new_found(t) \/ new_create(t)
       \/ clone_write(t)
       \/ drop_write(t) \/ drop_test(t) \/ remove_test(t) \/ remove_lock(t)
       \/ remove_unlink(t) \/ drop_free(t)
    /\ UNCHANGED <<snap, shared, oh, poisoned>>

\* C18 (termination), as a property of every finite run: a thread inside a
\* new, clone or drop can take its next step, or waits in remove for a guard
\* that another thread holds; the holder of the guard can always take its
\* next step (so the guard is released after the holder's at most two steps
\* under it: scan and increment or append, or unlink); and the scan of a new
\* reads each entry of the list at most once and nothing else.
Termination ==
    /\ \A t \in Threads :
           pc[t] # "idle" =>
               \/ ENABLED Continue(t)
               \/ pc[t] = "remove_lock" /\ lock \in Threads \ {t}
    /\ lock # 0 => pc[lock] \in InGuard /\ ENABLED Continue(lock)
    /\ \A t \in Threads :
           pc[t] = "search" =>
               /\ Len(Walk(heap, value[t], MaxAddr + 1)) <= MaxAddr
               /\ \A a \in Scan(t).read : InList(a)

(***************************************************************************)
(* Properties of operations that do not overlap (SpecSeq)                  *)
(***************************************************************************)
\* C5 when no two operations overlap: handles held at the same time are ==
\* exactly when they were interned with the same text, and != exactly when
\* the texts differ.
HandlesEqualIffSameText ==
    \A h1 \in AllHandles : \A h2 \in AllHandles :
        /\ eq(h1, h2) <=> (h1.text = h2.text)
        /\ ne(h1, h2) <=> (h1.text # h2.text)

\* two texts with the same fingerprint and length are held, one of them by
\* two threads
HandlesEqualIffSameTextWitness ==
    /\ \E h1 \in Owned(1) : \E h2 \in Owned(1) :
          /\ h1.text # h2.text
          /\ ohash(h1.text) = ohash(h2.text)
          /\ ne(h1, h2)
    /\ \E h1 \in Owned(1) : \E h2 \in Owned(2) : h1.text = h2.text /\ eq(h1, h2)

\* C6 (reference count): a node with a handle left is allocated and in the
\* list; only a drop that leaves no handle goes on to remove, it has unlinked
\* the node when it frees it; and between operations exactly the nodes with a
\* handle are allocated and in the list, each with its handles as its count.
RefcountSingleThread ==
    /\ ub = "none"
    /\ \A a \in Addr : LiveHandles(a) >= 1 => alloc[a] /\ InList(a)
    /\ \A t \in Threads :
          /\ pc[t] = "drop_test" =>
                heap[value[t]].count = LiveHandles(value[t]) /\ InList(value[t])
          /\ pc[t] \in {"remove", "remove_lock", "unlink", "free"} =>
                LiveHandles(value[t]) = 0 /\ alloc[value[t]]
          /\ pc[t] \in {"remove", "remove_lock", "unlink"} => InList(value[t])
          /\ pc[t] = "free" => ~InList(value[t])
    /\ AllIdle =>
          \A a \in Addr :
              /\ alloc[a] <=> InList(a)
              /\ alloc[a] <=> LiveHandles(a) >= 1
              /\ alloc[a] => heap[a].count = LiveHandles(a)

\* the last drop of a node that had two handles at once has unlinked it and
\* is about to free it, while another node stays in the list
RefcountSingleThreadWitness ==
    \E t \in Threads :
        /\ pc[t] = "free"
        /\ shared[value[t]]
        /\ ~InList(value[t])
        /\ begin # NULL

\* C7 (reuse after destruction): between operations a text no handle was
\* interned with is not found by the scan; and once a temporary interning of
\* a text is over (all its handles dropped) the list is as it was before it:
\* begin, end, the nodes, their order and their counts.  While handles of the
\* text are left, the list is the one before plus one node at the tail with
\* those handles as its count.
ReuseAfterDestruction ==
    AllIdle =>
        /\ \A s \in Texts : HandlesOf(s) = 0 => Search(s).found = NULL
        /\ snap.on /\ HandlesOf(snap.text) = 0 => View = snap.view
        /\ snap.on /\ HandlesOf(snap.text) > 0 =>
              /\ end # NULL
              /\ View.nodes = Append(snap.view.nodes,
                                     <<end, snap.text, HandlesOf(snap.text)>>)
              /\ View.begin = IF snap.view.begin = NULL THEN end ELSE snap.view.begin

\* a text was interned while another node was in the list, fully dropped
\* (again records that the list was then seen as before), and interned
\* again: a node with count 1 at the tail, behind the node that was there
ReuseAfterDestructionWitness ==
    /\ AllIdle
    /\ snap.on
    /\ snap.again
    /\ Len(snap.view.nodes) >= 1
    /\ HandlesOf(snap.text) = 1
    /\ View.nodes[Len(View.nodes)] = <<end, snap.text, 1>>

\* C9 when no two operations overlap: chars_count of every handle, and of a
\* handle being cloned, is the number of characters of the text it was
\* interned with.
CharsCountIsCharacters ==
    /\ \A h \in AllHandles : chars_count(h) = Len(h.text)
    /\ \A t \in Threads : pc[t] = "clone" => chars_count(self[t]) = Len(self[t].text)

\* thread 1 holds two handles (from a new that created the node and a clone
\* or matching new) and thread 2 one (from a matching new) of a text whose
\* byte length differs from its character count
CharsCountIsCharactersWitness ==
    \E h \in Owned(1) :
        /\ CopiesIn(h, handles[1]) = 2
        /\ CopiesIn(h, handles[2]) = 1
        /\ ByteLen(h.text) # Len(h.text)
        /\ chars_count(h) = 2

(***************************************************************************)
(* Properties of ohash (SpecHash)                                          *)
(***************************************************************************)
\* Numbers as sequences of base-256 digits, lowest first: the arithmetic the
\* statement of C8 is written in, plain sums and products, cut to 32 bits by
\* keeping four digits.
RECURSIVE Digits(_, _)
Digits(n, k) == IF k = 0 THEN <<>> ELSE <<n % 256>> \o Digits(n \div 256, k - 1)

\* x + y from digit i on, cut to the digits of x
RECURSIVE AddDigits(_, _, _, _)
AddDigits(x, y, i, carry) ==
    IF i > Len(x) THEN <<>>
    ELSE <<(x[i] + y[i] + carry) % 256>>
         \o AddDigits(x, y, i + 1, (x[i] + y[i] + carry) \div 256)

\* x * k from digit i on, for a number k below 2^15, cut to the digits of x
RECURSIVE MulDigits(_, _, _, _)
MulDigits(x, k, i, carry) ==
    IF i > Len(x) THEN <<>>
    ELSE <<(x[i] * k + carry) % 256>>
         \o MulDigits(x, k, i + 1, (x[i] * k + carry) \div 256)

\* h after the first i characters of s
RECURSIVE RefH(_, _)
RefH(s, i) ==
    IF i = 0 THEN Digits(0, 4)
    ELSE MulDigits(AddDigits(MulDigits(RefH(s, i - 1), 31, 1, 0), Digits(s[i], 4), 1, 0),
                   i, 1, 0)

\* r = h mod m for a 32-bit h: 0 <= r < m and h = q * m + r for some q
\* (in five digits, where nothing is cut)
IsMod(r, h, m) ==
    /\ r \in 0..(m - 1)
    /\ \E q \in 0..8 :
          AddDigits(MulDigits(Digits(m, 5), q, 1, 0), Digits(r, 5), 1, 0) = h \o <<0>>

\* C8 (hash algorithm): ohash returns the number of characters as the length
\* and (h mod 486187739) as the fingerprint, where h starts at 0 and becomes
\* ((h * 31 + code point) * i) modulo 2^32 at the i-th character; the
\* fingerprint is in 0..486187738 and the empty text gives (0, 0).
HashAlgorithm ==
    oh.ret # -1 =>
        /\ oh.mlen = Len(oh.c)
        /\ IsMod(oh.ret, RefH(oh.c, Len(oh.c)), 486187739)
        /\ oh.ret \in 0..486187738
        /\ oh.c = <<>> => oh.ret = 0 /\ oh.mlen = 0
        /\ ohash(oh.c) = [hash |-> oh.ret, len |-> oh.mlen]

\* three times U+10FFFF: (h * 31 + code point) * 3 is 6634531005, past 2^32,
\* and the call returns 2339563709 mod 486187739
HashAlgorithmWitness ==
    /\ oh.c = <<1114111, 1114111, 1114111>>
    /\ oh.mlen = 3
    /\ oh.ret = 394812753

====
